---- MODULE Spec2Model ----
(***************************************************************************)
(* Model of src/src/midi_processing.py: the grid synthesizer               *)
(* (generate_midi_from_tokens), the grid quantizer                         *)
(* (extract_tokens_with_granularity) and the silence trimmer               *)
(* (trim_and_convert_nones).                                               *)
(*                                                                         *)
(* A token is the Python value None or an integer pitch.  None is the      *)
(* empty tuple and the pitch p is the one-element tuple <<p>>, so that     *)
(* None differs from every integer, -1 included.                           *)
(***************************************************************************)
EXTENDS Integers, Sequences, FiniteSets, TLC

\* ---------------------------------------------------------------- bounds
MaxLen == 4             \* longest token grid drawn as an input
MaxMsgs == 3            \* longest track drawn as an input
MaxDelta == 1           \* ticks between two input messages that are not simultaneous
MaxTicksPerBeat == 4    \* largest ticks_per_beat drawn
MaxSubdivision == 4     \* largest subdivision drawn
Pitches == {60, 62}     \* the pitches of input tokens and messages

\* ------------------------------------------------------------ data model
None == <<>>
Pitch(p) == <<p>>
Tokens == {None} \cup {Pitch(p) : p \in Pitches}
Grids == UNION {[1..n -> Tokens] : n \in 0..MaxLen}

DefaultVelocity == 64

Message(type, note, velocity, time) ==
    [type |-> type, note |-> note, velocity |-> velocity, time |-> time]

\* The delta times of input messages: a message comes with the previous one
\* or MaxDelta ticks after it.
Deltas == {0, MaxDelta}

\* The messages a track source can supply: note_on with a positive or a zero
\* velocity, note_off, and a message of another type (its note and velocity
\* are never read).
InputMessages ==
    {Message("note_on", p, v, d) : p \in Pitches, v \in {0, DefaultVelocity}, d \in Deltas}
    \cup {Message("note_off", p, 0, d) : p \in Pitches, d \in Deltas}
    \cup {Message("other", 0, 0, d) : d \in Deltas}
Tracks == UNION {[1..n -> InputMessages] : n \in 0..MaxMsgs}

Resolutions == (1..MaxTicksPerBeat) \X (1..MaxSubdivision)

\* The resolutions input tracks are quantized with: step sizes 1, 2 and 0.
EncodeResolutions == {<<1, 1>>, <<2, 1>>, <<1, 2>>}

\* The docstring example of trim_and_convert_nones.
DocstringInput ==
    <<None, None, None, None, None, Pitch(60), None, Pitch(62), None, None, None>>
DocstringSubdivision == 4

VARIABLES
    pc,              \* position of the running call
    todo,            \* the calls still to make, the running one first
    tokens,          \* generate_midi_from_tokens / trim_and_convert_nones: tokens
    ticks_per_beat,
    subdivision,
    step_size,
    i,               \* generate_midi_from_tokens: loop index
    current_time,
    previous_token,
    mid_track,       \* generate_midi_from_tokens: track
    msg_step,        \* for each message of mid_track, the step index that emitted it
    saved,           \* mid.save was called
    q_track,         \* extract_tokens_with_granularity: track
    events,
    final_time,
    t,
    event_index,
    active_notes,
    q_tokens,        \* extract_tokens_with_granularity: tokens
    trimmed          \* trim_and_convert_nones: result

vars == <<pc, todo, tokens, ticks_per_beat, subdivision, step_size, i,
          current_time, previous_token, mid_track, msg_step, saved, q_track,
          events, final_time, t, event_index, active_notes, q_tokens, trimmed>>

synthVars == <<i, current_time, previous_token, mid_track, msg_step, saved>>
quantVars == <<events, final_time, t, event_index, active_notes, q_tokens>>
inputVars == <<tokens, ticks_per_beat, subdivision>>

NoActive == [n \in {} |-> 0]

\* --------------------------------------------------------------- helpers
StepSize(tpb, sub) == tpb \div sub

RECURSIVE SumTimes(_, _)
SumTimes(track, n) ==
    IF n = 0 THEN 0 ELSE SumTimes(track, n - 1) + track[n].time

StartPc(ops) == IF ops = <<>> THEN "done" ELSE ops[1] \o "_start"

\* ---------------------------------------------- generate_midi_from_tokens
\* Mutant of TransitionEvents: the previous note is not closed when a new
\* pitch starts.
TransitionEventsNoOff(prev, token) ==
    IF token # None THEN << <<"note_on", token>> >>
    ELSE IF prev # None THEN << <<"note_off", prev>> >> ELSE <<>>

TransitionEvents(prev, token) ==
    (IF prev # None THEN << <<"note_off", prev>> >> ELSE <<>>)
    \o (IF token # None THEN << <<"note_on", token>> >> ELSE <<>>)

\* Mutant of MsgTime: every event of a transition carries the delta time.
MsgTimeAlwaysDelta(idx, delta_time) == delta_time

MsgTime(idx, delta_time) == IF idx = 1 THEN delta_time ELSE 0

EventMessage(event, msg_time) ==
    IF event[1] = "note_off"
    THEN Message("note_off", event[2][1], 0, msg_time)
    ELSE Message("note_on", event[2][1], DefaultVelocity, msg_time)

\* Mutant of FlushDelta: the final time is taken at the last index.
FlushDeltaFromLastIndex(n, step, now) == (n - 1) * step - now

FlushDelta(n, step, now) == n * step - now

SynthStart ==
    /\ pc = "synth_start"
    /\ step_size' = StepSize(ticks_per_beat, subdivision)
    /\ mid_track' = <<>>
    /\ msg_step' = <<>>
    /\ current_time' = 0
    /\ previous_token' = None
    /\ i' = 0
    /\ pc' = "synth_loop"
    /\ UNCHANGED <<todo, inputVars, saved, q_track, quantVars, trimmed>>

SynthStep ==
    /\ pc = "synth_loop"
    /\ i < Len(tokens)
    /\ LET token == tokens[i + 1]
           step_time == i * step_size
           delta_time == step_time - current_time
           evs == TransitionEvents(previous_token, token)
           msgs == [idx \in 1..Len(evs) |->
                        EventMessage(evs[idx], MsgTime(idx, delta_time))]
       IN  IF token # previous_token
           THEN /\ mid_track' = mid_track \o msgs
                /\ msg_step' = msg_step \o [idx \in 1..Len(evs) |-> i]
                /\ current_time' = step_time
                /\ previous_token' = token
           ELSE UNCHANGED <<mid_track, msg_step, current_time, previous_token>>
    /\ i' = i + 1
    /\ UNCHANGED <<pc, todo, inputVars, step_size, saved, q_track, quantVars, trimmed>>

SynthFlush ==
    /\ pc = "synth_loop"
    /\ i = Len(tokens)
    /\ IF previous_token # None
       THEN /\ mid_track' = Append(mid_track,
                   Message("note_off", previous_token[1], 0,
                           FlushDelta(Len(tokens), step_size, current_time)))
            /\ msg_step' = Append(msg_step, Len(tokens))
       ELSE UNCHANGED <<mid_track, msg_step>>
    /\ pc' = "synth_save"
    /\ UNCHANGED <<todo, inputVars, step_size, i, current_time, previous_token,
                   saved, q_track, quantVars, trimmed>>

SynthSave ==
    /\ pc = "synth_save"
    /\ saved' = TRUE
    /\ todo' = Tail(todo)
    /\ pc' = StartPc(Tail(todo))
    /\ q_track' = IF Tail(todo) # <<>> THEN mid_track ELSE q_track
    /\ UNCHANGED <<inputVars, step_size, i, current_time, previous_token,
                   mid_track, msg_step, quantVars, trimmed>>

\* ---------------------------------------- extract_tokens_with_granularity
\* Mutant of AbsoluteEvents: the delta times are not summed.
AbsoluteEventsUnsummed(track) ==
    [k \in 1..Len(track) |-> <<track[k].time, track[k]>>]

AbsoluteEvents(track) ==
    [k \in 1..Len(track) |-> <<SumTimes(track, k), track[k]>>]

FinalTime(evs) == IF evs # <<>> THEN evs[Len(evs)][1] ELSE 0

\* Mutant of RangeStop: the sample loop stops before final_time.
RangeStopExclusive(final, step) == final

RangeStop(final, step) == final + step

\* Mutant of EventDue: an event exactly at the sample time is not yet due.
EventDueStrict(event_time, now) == event_time < now

EventDue(event_time, now) == event_time <= now

SetNote(active, note, time) ==
    [n \in DOMAIN active \cup {note} |-> IF n = note THEN time ELSE active[n]]

PopNote(active, note) == [n \in DOMAIN active \ {note} |-> active[n]]

ApplyMessage(active, event_time, msg) ==
    IF msg.type = "note_on"
    THEN IF msg.velocity > 0
         THEN SetNote(active, msg.note, event_time)
         ELSE PopNote(active, msg.note)
    ELSE IF msg.type = "note_off"
         THEN PopNote(active, msg.note)
         ELSE active

RECURSIVE ProcessDue(_, _, _, _)
ProcessDue(evs, idx, active, now) ==
    IF idx < Len(evs) /\ EventDue(evs[idx + 1][1], now)
    THEN ProcessDue(evs, idx + 1,
                    ApplyMessage(active, evs[idx + 1][1], evs[idx + 1][2]), now)
    ELSE [event_index |-> idx, active_notes |-> active]

MaxOf(S) == CHOOSE x \in S : \A y \in S : y <= x

\* Mutant of CurrentToken: the lowest active note is chosen.
CurrentTokenLowest(active) ==
    IF DOMAIN active # {}
    THEN Pitch(CHOOSE x \in DOMAIN active : \A y \in DOMAIN active : x <= y)
    ELSE None

CurrentToken(active) ==
    IF DOMAIN active # {} THEN Pitch(MaxOf(DOMAIN active)) ELSE None

QuantStart ==
    /\ pc = "quant_start"
    /\ step_size' = StepSize(ticks_per_beat, subdivision)
    /\ events' = AbsoluteEvents(q_track)
    /\ final_time' = FinalTime(events')
    /\ q_tokens' = <<>>
    /\ event_index' = 0
    /\ active_notes' = NoActive
    /\ t' = 0
    \* range() with a step of zero raises ValueError
    /\ pc' = IF step_size' = 0 THEN "raised" ELSE "quant_loop"
    /\ UNCHANGED <<todo, inputVars, synthVars, q_track, trimmed>>

QuantStep ==
    /\ pc = "quant_loop"
    /\ t < RangeStop(final_time, step_size)
    /\ LET r == ProcessDue(events, event_index, active_notes, t)
       IN  /\ event_index' = r.event_index
           /\ active_notes' = r.active_notes
           /\ q_tokens' = Append(q_tokens, CurrentToken(r.active_notes))
    /\ t' = t + step_size
    /\ UNCHANGED <<pc, todo, inputVars, step_size, synthVars, q_track, events,
                   final_time, trimmed>>

QuantReturn ==
    /\ pc = "quant_loop"
    /\ ~(t < RangeStop(final_time, step_size))
    /\ todo' = Tail(todo)
    /\ pc' = StartPc(Tail(todo))
    /\ tokens' = IF Tail(todo) # <<>> THEN q_tokens ELSE tokens
    /\ UNCHANGED <<ticks_per_beat, subdivision, step_size, synthVars, q_track,
                   quantVars, trimmed>>

\* ------------------------------------------------ trim_and_convert_nones
RECURSIVE FirstNonNone(_, _)
FirstNonNone(toks, first) ==
    IF first < Len(toks) /\ toks[first + 1] = None
    THEN FirstNonNone(toks, first + 1)
    ELSE first

RECURSIVE LastNonNone(_, _)
LastNonNone(toks, last) ==
    IF last >= 0 /\ toks[last + 1] = None
    THEN LastNonNone(toks, last - 1)
    ELSE last

\* Mutant of LeadingRemove: every leading None is removed.
LeadingRemoveAll(first, sub) == first

LeadingRemove(first, sub) == (first \div sub) * sub

TrailingRemove(n, last, sub) == ((n - last - 1) \div sub) * sub

NoneToSentinel(x) == IF x # None THEN x[1] ELSE -1

trim_and_convert_nones(toks, sub) ==
    IF toks = <<>> THEN <<>>
    ELSE LET first == FirstNonNone(toks, 0)
             last == LastNonNone(toks, Len(toks) - 1)
         IN  IF first > last THEN <<>>
             ELSE LET new_first == LeadingRemove(first, sub)
                      new_last == Len(toks) - TrailingRemove(Len(toks), last, sub) - 1
                      cut == SubSeq(toks, new_first + 1, new_last + 1)
                  IN  [k \in 1..Len(cut) |-> NoneToSentinel(cut[k])]

TrimCall ==
    /\ pc = "trim_start"
    /\ trimmed' = trim_and_convert_nones(tokens, subdivision)
    /\ todo' = Tail(todo)
    /\ pc' = StartPc(Tail(todo))
    /\ UNCHANGED <<inputVars, step_size, synthVars, q_track, quantVars>>

\* -------------------------------------------------------- specifications
Idle ==
    /\ step_size = 0
    /\ i = 0
    /\ current_time = 0
    /\ previous_token = None
    /\ mid_track = <<>>
    /\ msg_step = <<>>
    /\ saved = FALSE
    /\ events = <<>>
    /\ final_time = 0
    /\ t = 0
    /\ event_index = 0
    /\ active_notes = NoActive
    /\ q_tokens = <<>>
    /\ trimmed = <<>>

\* A token grid is synthesized and the resulting track is quantized with the
\* same resolution.
Init ==
    /\ todo = <<"synth", "quant">>
    /\ pc = StartPc(todo)
    /\ tokens \in Grids
    /\ \E r \in Resolutions : ticks_per_beat = r[1] /\ subdivision = r[2]
    /\ q_track = <<>>
    /\ Idle

Next ==
    \/ SynthStart
    \/ SynthStep
    \/ SynthFlush
    \/ SynthSave
    \/ QuantStart
    \/ QuantStep
    \/ QuantReturn

Spec == Init /\ [][Next]_vars

\* A track is quantized and the resulting grid is synthesized with the same
\* resolution (process_midi_file, then generate_midi_from_tokens in main.py).
InitEncode ==
    /\ todo = <<"quant", "synth">>
    /\ pc = StartPc(todo)
    /\ q_track \in Tracks
    /\ \E r \in EncodeResolutions : ticks_per_beat = r[1] /\ subdivision = r[2]
    /\ tokens = <<>>
    /\ Idle

SpecEncode == InitEncode /\ [][Next]_vars

\* A token grid is trimmed.
InitTrim ==
    /\ todo = <<"trim">>
    /\ pc = StartPc(todo)
    /\ \E in \in (Grids \X (1..MaxSubdivision))
                 \cup {<<DocstringInput, DocstringSubdivision>>} :
           tokens = in[1] /\ subdivision = in[2]
    /\ ticks_per_beat = 1
    /\ q_track = <<>>
    /\ Idle

NextTrim == TrimCall

SpecTrim == InitTrim /\ [][NextTrim]_vars

\* ------------------------------------------------------------ properties
\* Vocabulary of the properties, stated over the inputs and the results and
\* not over the loops that compute them.
TrailingRests(s) ==
    CHOOSE n \in 0..Len(s) :
        /\ \A k \in (Len(s) - n + 1)..Len(s) : s[k] = None
        /\ n = Len(s) \/ s[Len(s) - n] # None

LeadingRests(s) ==
    CHOOSE n \in 0..Len(s) :
        /\ \A k \in 1..n : s[k] = None
        /\ n = Len(s) \/ s[n + 1] # None

StripTrailingRests(s) == SubSeq(s, 1, Len(s) - TrailingRests(s))

HasPitch(s) == \E k \in 1..Len(s) : s[k] # None

TotalTime(track) == SumTimes(track, Len(track))

Divisible == ticks_per_beat % subdivision = 0

SynthReturned == saved

\* Under SpecEncode: the quantizer has returned its grid.
QuantReturned == pc \in {"synth_start", "synth_loop", "synth_save", "done"}

Opens(m) == m.type = "note_on" /\ m.velocity > 0

Closes(m, p) ==
    /\ m.note = p
    /\ m.type = "note_off" \/ (m.type = "note_on" /\ m.velocity = 0)

\* The number of messages of the input track with absolute time <= now
\* (a prefix of the track: delta times are >= 0).
DueCount(now) ==
    Cardinality({k \in 1..Len(q_track) : SumTimes(q_track, k) <= now})

\* The pitches opened and not closed afterwards among the first n messages.
SoundingAfter(n) ==
    {p \in Pitches :
        \E k \in 1..n :
            /\ Opens(q_track[k]) /\ q_track[k].note = p
            /\ \A j \in (k + 1)..n : ~Closes(q_track[j], p)}

Highest(S) == IF S = {} THEN None ELSE Pitch(CHOOSE p \in S : \A q \in S : q <= p)

ExpectedToken(now) == Highest(SoundingAfter(DueCount(now)))

\* The track's last note_on with a positive velocity is never followed by a
\* note_off or a zero-velocity note_on of the same pitch.
UnmatchedLastNoteOn ==
    \E k \in 1..Len(q_track) :
        /\ Opens(q_track[k])
        /\ \A j \in (k + 1)..Len(q_track) :
               ~Opens(q_track[j]) /\ ~Closes(q_track[j], q_track[k].note)

\* C1 (as claimed): with ticks_per_beat % subdivision = 0, quantizing the
\* synthesized track of a grid returns exactly that grid.
RoundTripExact ==
    (pc = "done" /\ Divisible) => q_tokens = tokens

\* C1 (amended): with ticks_per_beat % subdivision = 0, quantizing the
\* synthesized track of a grid returns the grid with its trailing rests
\* removed and one rest appended.
RoundTripUpToTrailingRests ==
    (pc = "done" /\ Divisible) =>
        q_tokens = Append(StripTrailingRests(tokens), None)

RoundTripWitness ==
    /\ pc = "done"
    /\ Divisible
    /\ step_size = 2
    /\ tokens = <<Pitch(60), Pitch(62), None, None>>
    /\ q_tokens = <<Pitch(60), Pitch(62), None>>

\* C2: every token of the quantizer's grid is the one for its sample step:
\* the greatest pitch sounding after all events with absolute time <= the
\* step's time were applied in track order, the rest marker if none sounds;
\* and the cursor has consumed exactly those events.
MonophonicCollapse ==
    pc = "quant_loop" =>
        /\ \A k \in 1..Len(q_tokens) :
               q_tokens[k] = ExpectedToken((k - 1) * step_size)
        /\ q_tokens # <<>> =>
               /\ event_index = DueCount(t - step_size)
               /\ DOMAIN active_notes = SoundingAfter(event_index)

MonophonicCollapseWitness ==
    /\ pc = "quant_loop"
    /\ Len(q_track) = 3
    /\ Opens(q_track[1]) /\ q_track[1].note = 62
    /\ Opens(q_track[2]) /\ q_track[2].note = 60 /\ q_track[2].time = 1
    /\ DOMAIN active_notes = {60, 62}
    /\ q_tokens # <<>>
    /\ q_tokens[Len(q_tokens)] = Pitch(62)

\* C3: for a track whose last note_on is unmatched (step_size >= 1), the
\* quantizer's last sample step is >= the last event's absolute time, every
\* event was applied and the grid's last token is a pitch; the track
\* synthesized from that grid ends note_on, note_off.
FlushCorrect ==
    /\ (QuantReturned /\ UnmatchedLastNoteOn) =>
           /\ q_tokens # <<>>
           /\ (Len(q_tokens) - 1) * step_size >= TotalTime(q_track)
           /\ event_index = Len(q_track)
           /\ q_tokens[Len(q_tokens)] # None
    /\ (pc = "done" /\ UnmatchedLastNoteOn) =>
           /\ Len(mid_track) >= 2
           /\ mid_track[Len(mid_track)].type = "note_off"
           /\ mid_track[Len(mid_track) - 1].type = "note_on"
           /\ mid_track[Len(mid_track) - 1].note = mid_track[Len(mid_track)].note

FlushCorrectWitness ==
    /\ pc = "done"
    /\ UnmatchedLastNoteOn
    /\ Len(q_track) = 3
    /\ q_track[3].time = 1
    /\ Opens(q_track[3])
    /\ step_size = 2
    /\ Len(mid_track) = 4

AlternatingOnOff ==
    /\ \A k \in 1..Len(mid_track) :
           IF k % 2 = 1
           THEN mid_track[k].type = "note_on"
           ELSE /\ mid_track[k].type = "note_off"
                /\ mid_track[k].note = mid_track[k - 1].note
    /\ pc \in {"synth_save", "quant_start", "quant_loop", "done", "raised"} =>
           Len(mid_track) % 2 = 0

AlternatingWitness ==
    /\ SynthReturned
    /\ tokens = <<Pitch(60), Pitch(62), None, Pitch(60)>>
    /\ Len(mid_track) = 6

EmptyInputEmptyOutput ==
    /\ (SynthReturned /\ tokens = <<>>) => mid_track = <<>>
    /\ (pc = "done" /\ q_track = <<>>) => q_tokens = <<>>

\* C7 (amended): the synthesizer returns no messages for the empty grid;
\* with step_size >= 1 the quantizer does not raise on a track with no
\* messages and returns the one-token grid [rest].
EmptyInputOutcome ==
    /\ (SynthReturned /\ tokens = <<>>) => mid_track = <<>>
    /\ (pc = "done" /\ q_track = <<>>) => q_tokens = <<None>>
    /\ (q_track = <<>> /\ StepSize(ticks_per_beat, subdivision) >= 1) =>
           pc # "raised"

EmptyInputWitness ==
    /\ pc = "done"
    /\ tokens = <<>>
    /\ mid_track = <<>>
    /\ q_track = <<>>
    /\ q_tokens = <<None>>

\* C8: with subdivision > ticks_per_beat (step_size = 0) neither operation
\* emits a message, appends a token, writes a file or returns.
DegenerateResolutionRejected ==
    StepSize(ticks_per_beat, subdivision) = 0 =>
        /\ mid_track = <<>>
        /\ q_tokens = <<>>
        /\ ~saved
        /\ pc \notin {"synth_save", "quant_start", "quant_loop", "done"}

\* C9: the docstring example: subdivision 4 and
\* [None x5, 60, None, 62, None x3] give [-1, 60, -1, 62, -1].
DocstringExample ==
    (pc = "done" /\ tokens = DocstringInput /\ subdivision = DocstringSubdivision) =>
        trimmed = <<-1, 60, -1, 62, -1>>

\* C10: every synthesized message has absolute time (the step index that
\* emitted it) * step_size, the flush being step len(tokens); delta times
\* are >= 0; a note_on that follows a note_off of the same step has delta 0.
\* The step index of a message is a transition of the grid at that index.
TimingExact ==
    /\ Len(msg_step) = Len(mid_track)
    /\ \A k \in 1..Len(mid_track) :
           LET m == mid_track[k]
               s == msg_step[k]
           IN  /\ SumTimes(mid_track, k) = s * step_size
               /\ m.time >= 0
               /\ (k > 1 /\ m.type = "note_on" /\ mid_track[k - 1].type = "note_off"
                         /\ msg_step[k - 1] = s) => m.time = 0
               /\ m.type = "note_on" =>
                      /\ s < Len(tokens) /\ tokens[s + 1] = Pitch(m.note)
                      /\ s > 0 => tokens[s] # Pitch(m.note)
               /\ m.type = "note_off" =>
                      /\ s > 0 /\ tokens[s] = Pitch(m.note)
                      /\ s < Len(tokens) => tokens[s + 1] # Pitch(m.note)
    /\ (SynthReturned /\ tokens # <<>> /\ tokens[Len(tokens)] # None) =>
           /\ msg_step[Len(msg_step)] = Len(tokens)
           /\ TotalTime(mid_track) = Len(tokens) * step_size

TimingWitness ==
    /\ SynthReturned
    /\ step_size = 2
    /\ tokens = <<None, Pitch(60), Pitch(60), Pitch(62)>>
    /\ msg_step = <<1, 3, 3, 4>>
    /\ mid_track[3].time = 0
    /\ TotalTime(mid_track) = 8

====
